---- MODULE Spec2Model ----
(***************************************************************************)
(* TileMapToMesh: the LDtk importer (load_ldtk.py, UTIL_OP_LoadLdtk) and   *)
(* the TMX importer (load_tilemap.py, UTIL_OP_LoadTilemap) as state        *)
(* machines.  One execute() call is a run of steps: open/parse, populate   *)
(* the import options, resolve tilesets, then per level and per layer      *)
(* instance gather the tiles, build one quad per tile and finalize.        *)
(*                                                                         *)
(* The document is an input.  Its header (readable, levels, tilesets) is   *)
(* drawn in Init; each level and each layer instance is drawn when the     *)
(* loop reaches it, which is the order in which execute() reads them.      *)
(***************************************************************************)
EXTENDS Integers, Sequences, FiniteSets, TLC

(* ------------------------------ bounds --------------------------------- *)
MaxLevels == 2
MaxLayers == 2
MaxTiles == 2
MaxImports == 2

(* ------------------------------ helpers -------------------------------- *)
\* Python's None for an absent tileset reference; tileset uids are 1, 2.
None == 0
\* A flip value that is not an integer (JSON null or a string): `f & 1`
\* raises TypeError on it.
NotAnInt == 4

EmptyMap == <<>>
Put(f, k, v) == [x \in (DOMAIN f) \cup {k} |-> IF x = k THEN v ELSE f[x]]

RECURSIVE SeqFold(_, _, _, _)
\* Left fold of Op over s[i..Len(s)] (a for-loop over a list).
SeqFold(Op(_, _), acc, s, i) ==
  IF i > Len(s) THEN acc ELSE SeqFold(Op, Op(acc, s[i]), s, i + 1)

(* ------------------------------ inputs --------------------------------- *)
TilesetUids == {1, 2}

\* A tileset definition of defs.tilesets.  resolvable: it is not the
\* LdtkIcons atlas, has a relPath and load_texture returned an image.
\* size: the pixel size Blender reports for the image ((0,0) for a file it
\* could not decode).
Tileset1Choices ==
  { [identifier |-> "A", resolvable |-> TRUE, size |-> s, tileGridSize |-> 2]
      : s \in {<<4, 2>>, <<0, 0>>} }
Tileset2Choices ==
  { [identifier |-> "B", resolvable |-> FALSE, size |-> <<4, 2>>, tileGridSize |-> 2],
    [identifier |-> "B", resolvable |-> TRUE, size |-> <<4, 2>>, tileGridSize |-> 2],
    [identifier |-> "B", resolvable |-> TRUE, size |-> <<4, 2>>, tileGridSize |-> 0],
    [identifier |-> "A", resolvable |-> TRUE, size |-> <<4, 2>>, tileGridSize |-> 2] }
TilesetTables ==
  { [u \in TilesetUids |-> IF u = 1 THEN a ELSE b]
      : a \in Tileset1Choices, b \in Tileset2Choices }

\* The parsed main file.  readable: open() and json.load() succeeded.
\* hasDefs: the document has defs.tilesets and defs.layers.  project: what
\* tells the iids of its levels from those of another file.  levels: "any"
\* when the level entries are left open, "bare" when every level has an
\* iid, no external file and no layer instance.
LdtkDocuments ==
  [readable : BOOLEAN, hasDefs : BOOLEAN, nLevels : 0..MaxLevels,
   tilesets : TilesetTables, project : {"main"}, levels : {"any"}]

\* Layers of the model have this grid: __gridSize, __cWid, __cHei.  With a
\* grid size that is a power of two the float divisions of the source are
\* exact, so integer arithmetic gives the same numbers.
GridSize == 2
CWid == 2
CHei == 1

LayerTypes == {"Tiles", "AutoLayer", "IntGrid", "Entities", "Other"}

\* Tile instances: px inside the layer (0 <= px_x < CWid*GridSize,
\* 0 <= px_y < CHei*GridSize), aligned to the grid or not; src in the atlas;
\* flip bits f.
TileChoices ==
  { [px |-> <<0, 0>>, src |-> <<0, 0>>, f |-> 0],
    [px |-> <<2, 0>>, src |-> <<2, 0>>, f |-> 2],
    [px |-> <<0, 1>>, src |-> <<0, 0>>, f |-> 3],
    [px |-> <<3, 1>>, src |-> <<0, 0>>, f |-> 1],
    [px |-> <<0, 0>>, src |-> <<0, 0>>, f |-> NotAnInt] }

TileSeqs == UNION { [1..n -> TileChoices] : n \in 0..MaxTiles }

\* intGridCsv: one value per cell (CWid*CHei cells), or absent/empty.
CsvChoices == { <<>>, <<0, 0>>, <<1, 0>>, <<0, 1>>, <<1, 1>> }

\* A layer instance as execute() reads it.
\*   iid: it has an 'iid' key (so its import settings are found)
\*   missing: a required key the instance lacks ("none" when complete)
\*   defFound: layerDefUid is a key of layer_defs
\*   hasVisual: layerDefUid is a key of int_grid_value_tiles
\*   ts: __tilesetDefUid (None when absent); tiles: gridTiles + autoLayerTiles
DefaultLayer ==
  [iid |-> TRUE, missing |-> "none", defFound |-> TRUE, type |-> "Tiles",
   visible |-> TRUE, ts |-> 1, hasVisual |-> FALSE, csv |-> <<>>,
   tiles |-> <<>>]

\* Layer instances that are left before their tiles are read; the fields the
\* code does not reach keep one or two values each.
EarlyLayerChoices ==
  { [DefaultLayer EXCEPT !.iid = FALSE],
    [DefaultLayer EXCEPT !.missing = "layerDefUid"],
    [DefaultLayer EXCEPT !.missing = "__type"],
    [DefaultLayer EXCEPT !.defFound = FALSE] }
  \cup
  { [DefaultLayer EXCEPT !.visible = FALSE, !.type = t, !.tiles = tl,
                         !.hasVisual = TRUE, !.csv = <<1, 1>>]
      : t \in LayerTypes, tl \in {<<>>, <<CHOOSE c \in TileChoices : c.px = <<0, 0>> /\ c.f = 0>>} }
  \cup
  { [DefaultLayer EXCEPT !.type = t, !.tiles = tl]
      : t \in {"Entities", "Other"},
        tl \in {<<>>, <<CHOOSE c \in TileChoices : c.px = <<0, 0>> /\ c.f = 0>>} }

\* Visible Tiles/AutoLayer/IntGrid instances, without their tiles.
TileLayerChoices ==
  { [DefaultLayer EXCEPT !.type = t, !.ts = u]
      : t \in {"Tiles", "AutoLayer"}, u \in {None} \cup TilesetUids }
  \cup
  { [DefaultLayer EXCEPT !.type = "IntGrid", !.ts = u, !.hasVisual = v, !.csv = c]
      : u \in {None} \cup TilesetUids, v \in BOOLEAN, c \in CsvChoices }

\* The tile lists tried on a layer instance that is left before its tiles
\* are read.
UnreadTileSeqs ==
  { <<>>, <<CHOOSE c \in TileChoices : c.px = <<0, 0>> /\ c.f = 0>> }

\* A level entry of the main file.  iid: it has an 'iid' key; ext: "none"
\* (no externalRelPath), "loaded" (the external file was read) or "failed".
LevelChoices ==
  [iid : BOOLEAN, ext : {"none", "loaded", "failed"},
   origin : {<<0, 0>>, <<4, 2>>}, nLayers : 0..MaxLayers]

\* What the layer loop keeps of the level: worldX/worldY and the number of
\* layer instances of actual_level_data.
NoLevel == [origin |-> <<0, 0>>, nLayers |-> 0]

\* The level entries a document can have at one position.
LevelsOf(data) ==
  IF data.levels = "bare"
    THEN {[iid |-> TRUE, ext |-> "none", origin |-> <<0, 0>>, nLayers |-> 0]}
    ELSE LevelChoices

\* The files the user can select in the file browser: no file (""), a
\* project of two levels, one of one level, and one without levels.
UiPaths == {"", "a", "b", "c"}

\* The document at a path.
UiDocument(path) ==
  [readable |-> path # "", hasDefs |-> TRUE,
   nLevels |-> IF path = "a" THEN 2 ELSE IF path = "b" THEN 1 ELSE 0,
   tilesets |-> CHOOSE t \in TilesetTables :
                  t[2].identifier = "B" /\ t[2].resolvable /\ t[2].tileGridSize = 2
                  /\ t[1].size = <<4, 2>>,
   project |-> path, levels |-> "bare"]

(* ---------------------------- inputs (TMX) ----------------------------- *)
\* The map grid: `for x, y, gid in layer` yields TmxWidth*TmxHeight cells,
\* row by row.
TmxWidth == 2
TmxHeight == 2

\* A tileset of the map.  image: "ok", or "missing" when
\* bpy.data.images.load raises; size: the pixel size of the loaded image.
TmxTileset(name, firstgid, image, size) ==
  [name |-> name, firstgid |-> firstgid, tilewidth |-> 2, tileheight |-> 2,
   image |-> image, size |-> size]

\* Three tilesets A, B, C (gids 1-2, 3-4, 5-6); the last one is good, has
\* an image narrower than a tile (no column), an image of size (0,0), or no
\* image file, or tiles of width zero; or the second one has the name of
\* the first.
TmxTilesetTables ==
  { << TmxTileset("A", 1, "ok", <<4, 2>>), TmxTileset("B", 3, "ok", <<4, 2>>), c >>
      : c \in { TmxTileset("C", 5, "ok", <<4, 2>>),
                TmxTileset("C", 5, "ok", <<1, 2>>),
                TmxTileset("C", 5, "ok", <<0, 0>>),
                TmxTileset("C", 5, "missing", <<0, 0>>),
                [TmxTileset("C", 5, "ok", <<4, 2>>) EXCEPT !.tilewidth = 0] } }
  \cup
  { << TmxTileset("A", 1, "ok", <<4, 2>>), TmxTileset("A", 3, "ok", <<4, 2>>),
       TmxTileset("C", 5, "ok", <<4, 2>>) >> }

\* load: pytmx.TiledMap(filepath) returns the map ("ok"), raises
\* FileNotFoundError ("not_found") or raises another error ("error").
TmxFiles ==
  [load : {"ok", "not_found", "error"}, tilesets : TmxTilesetTables,
   nLayers : 0..MaxLayers]

NoTmxFile ==
  [load |-> "ok", nLayers |-> 0,
   tilesets |-> CHOOSE t \in TmxTilesetTables : t[2].name = "A"]

\* Cell values: 0 (no tile), or a gid of tileset A (1, 2), B (3) or C (5).
TmxGids == {0, 1, 2, 3, 5}

\* A layer of the map: a tile layer with its cells, or another kind of
\* layer (object group, image layer); visible or not.
TmxLayerChoices ==
  [kind : {"tile"}, visible : {TRUE}, cells : [1..(TmxWidth * TmxHeight) -> TmxGids]]
  \cup
  [kind : {"tile", "other"}, visible : BOOLEAN,
   cells : {[k \in 1..(TmxWidth * TmxHeight) |-> 1]}]

\* self.tilemap = None
NoTilemap == [load |-> "None", tilesets |-> <<>>, nLayers |-> 0]

NoTmxLayer == [kind |-> "other", visible |-> TRUE,
               cells |-> [k \in 1..(TmxWidth * TmxHeight) |-> 0]]

NoLdtkData ==
  [readable |-> FALSE, hasDefs |-> FALSE, nLevels |-> 0,
   tilesets |-> CHOOSE t \in TilesetTables : TRUE,
   project |-> "main", levels |-> "any"]

(* ----------------------------- the add-on ------------------------------ *)
\* The classes each submodule's register() registers, in the order of
\* `submodules` in __init__.py.
Submodules ==
  << {"VIEW3D_PT_TileMapToMeshPanel"},
     {"UTIL_OP_LoadTilemap"},
     {"LDtkSelectionHelperBase", "LDtkLayerInstanceImportProperties",
      "LDtkLevelImportProperties", "UTIL_OP_LoadLdtk"} >>

\* The bl_idname of each operator class.
BlIdname ==
  [c \in {"UTIL_OP_LoadTilemap", "UTIL_OP_LoadLdtk", "LDtkSelectionHelperBase"} |->
     IF c = "UTIL_OP_LoadTilemap" THEN "tilemaputil.tilemap_load"
     ELSE IF c = "UTIL_OP_LoadLdtk" THEN "tilemaputil.ldtk_loader"
     ELSE "tilemaputil.select_helper_base"]

\* The operator ids the panel's draw passes to box.operator.
PanelOperatorIds == {"tilemaputil.tilemap_loader", "tilemaputil.ldtk_loader"}

\* One step of the loop of register() in __init__.py.
RegisterSubmodule(classes, submod) == classes \cup submod

\* What register() leaves registered.
AllRegistered == SeqFold(RegisterSubmodule, {}, Submodules, 1)

\* The operator ids Blender knows, given the registered classes.
OperatorIds(classes) == { BlIdname[c] : c \in classes \cap DOMAIN BlIdname }

(* ------------------------------- state --------------------------------- *)
VARIABLES
  ldtk_data,            \* the document at self.filepath
  filepath,             \* self.filepath of the LDtk operator
  processed_filepath,   \* self.processed_filepath
  import_scale,         \* self.import_scale
  data_parsed_for_ui,   \* self.data_parsed_for_ui
  levels_to_import,     \* self.levels_to_import: [level_iid, import_level]
  bpy_materials,        \* bpy.data.materials: set of [name, image]
  collections,          \* level collections created by this execute
  objects,              \* objects created by this execute: [level, layer, z]
  obj,                  \* the object of the current layer: [materials, nfaces]
  mesh,                 \* the mesh of the current layer, set by bm.to_mesh
  created_materials,    \* uid -> material name
  loaded_textures,      \* uid -> image
  pc, result,
  level_idx, level,     \* position and current level entry
  layer_idx, layer_instance,
  z_offset,             \* in units of layer_sep
  tiles_to_process, tile_idx,
  material_indices,     \* tileset uid -> material slot
  bm,                   \* the bmesh under construction: [verts, faces]
  skipped_tiles,        \* tiles of this layer reported as "Skipping tile"
  last_layer,           \* the last self.report about a layer: [outcome, ...]
  importer,             \* the operator that runs: "ldtk" or "tmx"
  imports,              \* execute() calls started so far
  tmx_file,             \* the TMX map at self.filepath
  tilemap,              \* self.tilemap: the loaded map, or NoTilemap
  gid_to_tiledata_dict, \* class attribute: gid -> TileData
  tileset_to_tiledata_dict, \* class attribute: tileset -> TileData
  tmx_layer,            \* the layer create_mesh_object works on
  cell_idx,             \* position in `for x, y, gid in layer`
  verts_map,            \* (x, -y) -> vertex
  material_dict, index, \* material -> slot, and the next slot
  registered,           \* the classes registered with bpy.utils
  panel_buttons         \* operator ids of the buttons the panel laid out

vars == <<ldtk_data, filepath, processed_filepath, import_scale,
          data_parsed_for_ui, levels_to_import,
          bpy_materials, collections, objects, obj, mesh, created_materials,
          loaded_textures, pc, result, level_idx, level, layer_idx,
          layer_instance, z_offset, tiles_to_process, tile_idx,
          material_indices, bm, skipped_tiles, last_layer, importer,
          imports, tmx_file, tilemap, gid_to_tiledata_dict,
          tileset_to_tiledata_dict, tmx_layer, cell_idx, verts_map,
          material_dict, index, registered, panel_buttons>>

\* What only the LDtk operator uses, and what only the TMX operator uses.
ldtkVars == <<ldtk_data, filepath, processed_filepath, import_scale,
              data_parsed_for_ui, levels_to_import,
              collections, created_materials, loaded_textures, level_idx,
              level, layer_instance, z_offset, tiles_to_process, tile_idx,
              material_indices, skipped_tiles, last_layer>>
tmxVars == <<tmx_file, tilemap, gid_to_tiledata_dict, tileset_to_tiledata_dict,
             tmx_layer, cell_idx, verts_map, material_dict, index>>

NoBm == [verts |-> <<>>, faces |-> <<>>]
NoObj == [materials |-> <<>>, nfaces |-> 0]
NoReport == [outcome |-> "none", layer |-> DefaultLayer, level |-> 0, idx |-> 0, nobj |-> 0]

\* The state every execute() starts from, whatever the operator.
Fresh ==
  /\ created_materials = EmptyMap
  /\ loaded_textures = EmptyMap
  /\ result = "NONE"
  /\ level_idx = 0
  /\ level = NoLevel
  /\ layer_idx = 0
  /\ layer_instance = DefaultLayer
  /\ z_offset = 0
  /\ tiles_to_process = <<>>
  /\ tile_idx = 0
  /\ material_indices = EmptyMap
  /\ bm = NoBm
  /\ obj = NoObj
  /\ mesh = NoBm
  /\ skipped_tiles = {}
  /\ last_layer = NoReport
  /\ tilemap = NoTilemap
  /\ tmx_layer = NoTmxLayer
  /\ cell_idx = 0
  /\ verts_map = EmptyMap
  /\ material_dict = EmptyMap
  /\ index = 0

\* A new Blender session: no material, no object, and both operators as
\* registered.
Session ==
  /\ Fresh
  /\ bpy_materials = {}
  /\ collections = 0
  /\ objects = <<>>
  /\ data_parsed_for_ui = FALSE
  /\ levels_to_import = <<>>
  /\ processed_filepath = ""
  /\ panel_buttons = {}
  /\ gid_to_tiledata_dict = EmptyMap
  /\ tileset_to_tiledata_dict = EmptyMap
  /\ imports = 1

InitLdtk ==
  /\ Session
  /\ importer = "ldtk"
  /\ pc = "open"
  /\ ldtk_data \in LdtkDocuments
  /\ filepath = "main"
  /\ registered = AllRegistered
  /\ import_scale \in {2}
  /\ tmx_file = NoTmxFile

InitTmx ==
  /\ Session
  /\ importer = "tmx"
  /\ pc = "tmx_load"
  /\ tmx_file \in TmxFiles
  /\ ldtk_data = NoLdtkData
  /\ filepath = ""
  /\ registered = AllRegistered
  /\ import_scale = 2

Init == InitLdtk \/ InitTmx

\* The TMX operator does not run.
TmxIdle == UNCHANGED <<importer, imports, registered, panel_buttons, tmxVars>>

(* ----------------------- tilesets and materials ------------------------ *)
\* mat_name = f"mat_{ts_def['identifier']}"
MatName(identifier) == "mat_" \o identifier

\* load_texture: the image of one tileset.
LoadedImage(uid, ts_def) == [file |-> <<"ldtk", uid>>, size |-> ts_def.size]

\* A datablock name is <<base, n>>: n = 0 is the name as given, n > 0 the
\* name with Blender's numeric suffix (.001, .002, ...).
\* create_tile_material: the materials after the call (a material of that
\* name is reused, otherwise one is created showing `image`).
CreateTileMaterial(mats, mat_name, image) ==
  IF \E m \in mats : m.name = <<mat_name, 0>>
    THEN mats
    ELSE mats \cup {[name |-> <<mat_name, 0>>, image |-> image]}

\* One iteration of the tileset loop; acc = [mats, created, textures].
ResolveTileset(acc, uid) ==
  LET ts_def == ldtk_data.tilesets[uid] IN
  IF ~ts_def.resolvable
    THEN acc
    ELSE LET image == LoadedImage(uid, ts_def)
             mat_name == MatName(ts_def.identifier)
         IN [mats |-> CreateTileMaterial(acc.mats, mat_name, image),
             created |-> Put(acc.created, uid, <<mat_name, 0>>),
             textures |-> Put(acc.textures, uid, image)]

(* ------------------------------ execute -------------------------------- *)
Stop(res) ==
  /\ pc' = "done"
  /\ result' = res

\* Open without the handler of lines 325-327: an unreadable file is taken
\* for a parsed one.
OpenUnguarded ==
  /\ pc = "open"
  /\ TmxIdle
  /\ pc' = "populate"
  /\ result' = result
  /\ UNCHANGED <<ldtk_data, filepath, processed_filepath, import_scale,
                 data_parsed_for_ui, levels_to_import,
                 bpy_materials, collections, objects, obj, mesh, created_materials,
                 loaded_textures, level_idx, level, layer_idx, layer_instance,
                 z_offset, tiles_to_process, tile_idx, material_indices, bm,
                 skipped_tiles, last_layer>>

\* execute, lines 322-329: open and parse the file.
Open ==
  /\ pc = "open"
  /\ TmxIdle
  /\ IF ldtk_data.readable
       THEN pc' = "populate" /\ result' = result
       ELSE Stop("CANCELLED")
  /\ UNCHANGED <<ldtk_data, filepath, processed_filepath, import_scale,
                 data_parsed_for_ui, levels_to_import,
                 bpy_materials, collections, objects, obj, mesh, created_materials,
                 loaded_textures, level_idx, level, layer_idx, layer_instance,
                 z_offset, tiles_to_process, tile_idx, material_indices, bm,
                 skipped_tiles, last_layer>>

\* _populate_levels_and_layers_for_import: the toggles it leaves, all True.
PopulatedLevels(data) ==
  [i \in 1..data.nLevels |->
     [level_iid |-> <<data.project, i>>, import_level |-> TRUE]]
\* ... and the flag it leaves: True only when the document has levels.
PopulatedFlag(data) == data.nLevels > 0

\* Line 334 without its second half: the flag alone decides.
NeedsPopulateByFlagOnly == ~data_parsed_for_ui

\* Line 334: the options are populated when the UI did not parse them, or
\* parsed them for another path.
NeedsPopulate == ~data_parsed_for_ui \/ processed_filepath # filepath

\* execute, lines 331-348: populate the options when the UI did not, then
\* leave when nothing was parsed or there is no level.
Populate ==
  /\ pc = "populate"
  /\ TmxIdle
  /\ LET repopulate == NeedsPopulate
         flag == IF repopulate THEN PopulatedFlag(ldtk_data) ELSE data_parsed_for_ui
         lvls == IF repopulate THEN PopulatedLevels(ldtk_data) ELSE levels_to_import
     IN /\ data_parsed_for_ui' = flag
        /\ levels_to_import' = lvls
        /\ processed_filepath' =
             IF repopulate /\ flag THEN filepath ELSE processed_filepath
        /\ IF ~flag THEN Stop("CANCELLED")
           ELSE IF lvls = <<>> THEN Stop("FINISHED")
           ELSE pc' = "tilesets" /\ result' = result
  /\ UNCHANGED <<ldtk_data, filepath, import_scale, bpy_materials, collections, objects,
                 obj, mesh, created_materials, loaded_textures, level_idx, level,
                 layer_idx, layer_instance, z_offset, tiles_to_process,
                 tile_idx, material_indices, bm, skipped_tiles, last_layer>>

\* execute, lines 350-399: the tileset table, textures and materials.
\* ldtk_data['defs'] raises KeyError when the document has no defs.
Tilesets ==
  /\ pc = "tilesets"
  /\ TmxIdle
  /\ IF ~ldtk_data.hasDefs
       THEN /\ Stop("RAISED")
            /\ UNCHANGED <<bpy_materials, created_materials, loaded_textures, level_idx>>
       ELSE LET acc == SeqFold(ResolveTileset,
                               [mats |-> bpy_materials, created |-> EmptyMap,
                                textures |-> EmptyMap],
                               <<1, 2>>, 1)
            IN /\ bpy_materials' = acc.mats
               /\ created_materials' = acc.created
               /\ loaded_textures' = acc.textures
               /\ pc' = "level"
               /\ level_idx' = 1
               /\ result' = result
  /\ UNCHANGED <<ldtk_data, filepath, processed_filepath, import_scale,
                 data_parsed_for_ui, levels_to_import,
                 collections, objects, obj, mesh, level, layer_idx, layer_instance,
                 z_offset, tiles_to_process, tile_idx, material_indices, bm,
                 skipped_tiles, last_layer>>

\* The level loop: a level is imported when its settings are found by iid
\* and its toggle is set (lines 403-409).
LevelSelected(lvl, idx) ==
  LET found == { k \in 1..Len(levels_to_import) :
                   levels_to_import[k].level_iid = <<ldtk_data.project, idx>> }
  IN /\ lvl.iid
     /\ found # {}
     /\ levels_to_import[CHOOSE k \in found : \A j \in found : k <= j].import_level

\* execute, lines 401-448: one iteration of the level loop up to the layers.
BeginLevel ==
  /\ pc = "level"
  /\ TmxIdle
  /\ level_idx <= ldtk_data.nLevels
  /\ \E lvl \in LevelsOf(ldtk_data) :
       /\ level' = [origin |-> lvl.origin, nLayers |-> lvl.nLayers]
       /\ z_offset' = 0
       /\ IF ~LevelSelected(lvl, level_idx) \/ lvl.ext = "failed"
            THEN /\ level_idx' = level_idx + 1
                 /\ UNCHANGED <<pc, collections, layer_idx>>
            ELSE /\ collections' = collections + 1
                 /\ IF lvl.nLayers = 0
                      THEN /\ level_idx' = level_idx + 1
                           /\ UNCHANGED <<pc, layer_idx>>
                      ELSE /\ pc' = "layer"
                           /\ layer_idx' = 1
                           /\ UNCHANGED level_idx
  /\ UNCHANGED <<ldtk_data, filepath, processed_filepath, import_scale,
                 data_parsed_for_ui, levels_to_import,
                 bpy_materials, objects, obj, mesh, created_materials,
                 loaded_textures, result, layer_instance, tiles_to_process,
                 tile_idx, material_indices, bm, skipped_tiles, last_layer>>

\* execute, lines 662-663: the level loop is over.
Finish ==
  /\ pc = "level"
  /\ TmxIdle
  /\ level_idx > ldtk_data.nLevels
  /\ Stop("FINISHED")
  /\ UNCHANGED <<ldtk_data, filepath, processed_filepath, import_scale,
                 data_parsed_for_ui, levels_to_import,
                 bpy_materials, collections, objects, obj, mesh, created_materials,
                 loaded_textures, level_idx, level, layer_idx, layer_instance,
                 z_offset, tiles_to_process, tile_idx, material_indices, bm,
                 skipped_tiles, last_layer>>

(* ---------------------------- layer walker ----------------------------- *)
\* Import settings of a layer instance are found by its iid (lines 454-459).
LayerSelected(layer) == layer.iid

\* LayerVerdict without the visibility test of lines 475-477.
LayerVerdictOfHiddenLayer(layer, created) ==
  IF ~LayerSelected(layer) THEN "not_selected"
  ELSE IF layer.missing = "layerDefUid" THEN "raised"
  ELSE IF ~layer.defFound THEN "no_definition"
  ELSE IF layer.missing # "none" THEN "raised"
  ELSE IF layer.type \in {"Tiles", "AutoLayer"}
    THEN IF layer.ts = None THEN "no_tileset"
         ELSE IF layer.ts \notin DOMAIN created THEN "no_material"
         ELSE "gather"
  ELSE IF layer.type = "IntGrid"
    THEN IF layer.ts = None \/ ~layer.hasVisual THEN "no_visual"
         ELSE IF layer.ts \notin DOMAIN created THEN "no_material"
         ELSE IF layer.csv = <<>> THEN "empty_csv"
         ELSE "gather"
  ELSE IF layer.type = "Entities" THEN "entities"
  ELSE "unsupported"

\* LayerVerdict without the material tests of lines 491-494 and 505-507:
\* the tiles of a layer without material reach the tile loop.
LayerVerdictPerTileDrop(layer, created) ==
  IF ~LayerSelected(layer) THEN "not_selected"
  ELSE IF layer.missing = "layerDefUid" THEN "raised"
  ELSE IF ~layer.defFound THEN "no_definition"
  ELSE IF layer.missing # "none" THEN "raised"
  ELSE IF ~layer.visible THEN "hidden"
  ELSE IF layer.type \in {"Tiles", "AutoLayer"}
    THEN IF layer.ts = None THEN "no_tileset" ELSE "gather"
  ELSE IF layer.type = "IntGrid"
    THEN IF layer.ts = None \/ ~layer.hasVisual THEN "no_visual"
         ELSE IF layer.csv = <<>> THEN "empty_csv"
         ELSE "gather"
  ELSE IF layer.type = "Entities" THEN "entities"
  ELSE "unsupported"

\* What execute() decides about a layer instance before it reads the tiles
\* (lines 454-528, in the order of the code): the report it makes, "raised"
\* for a KeyError, or "gather" to go on to the tiles.
LayerVerdict(layer, created) ==
  IF ~LayerSelected(layer) THEN "not_selected"
  ELSE IF layer.missing = "layerDefUid" THEN "raised"
  ELSE IF ~layer.defFound THEN "no_definition"
  ELSE IF layer.missing # "none" THEN "raised"
  ELSE IF ~layer.visible THEN "hidden"
  ELSE IF layer.type \in {"Tiles", "AutoLayer"}
    THEN IF layer.ts = None THEN "no_tileset"
         ELSE IF layer.ts \notin DOMAIN created THEN "no_material"
         ELSE "gather"
  ELSE IF layer.type = "IntGrid"
    THEN IF layer.ts = None \/ ~layer.hasVisual THEN "no_visual"
         ELSE IF layer.ts \notin DOMAIN created THEN "no_material"
         ELSE IF layer.csv = <<>> THEN "empty_csv"
         ELSE "gather"
  ELSE IF layer.type = "Entities" THEN "entities"
  ELSE "unsupported"

\* int((px[0]/grid_size) + (px[1]/grid_size * layer_c_wid)), line 516: the
\* sum is (px[0] + px[1]*layer_c_wid)/grid_size, truncated.
IntGridIndex(px, grid_size, layer_c_wid) ==
  (px[1] + px[2] * layer_c_wid) \div grid_size

\* One iteration of the IntGrid tile loop (lines 515-519); the list index is
\* zero-based and raises IndexError past the end.
IntGridStep(layer, acc, tile) ==
  LET i == IntGridIndex(tile.px, GridSize, CWid) IN
  IF acc.raised THEN acc
  ELSE IF i >= Len(layer.csv) THEN [acc EXCEPT !.raised = TRUE]
  ELSE IF layer.csv[i + 1] # 0
    THEN [acc EXCEPT !.tiles = Append(@, [px |-> tile.px, src |-> tile.src,
                                          f |-> tile.f, ts |-> layer.ts])]
  ELSE acc

\* The tile loop of a layer (lines 496-499 and 514-519).
GatheredTiles(layer) ==
  IF layer.type = "IntGrid"
    THEN LET Step(acc, tile) == IntGridStep(layer, acc, tile)
         IN SeqFold(Step, [raised |-> FALSE, tiles |-> <<>>], layer.tiles, 1)
    ELSE [raised |-> FALSE,
          tiles |-> [k \in 1..Len(layer.tiles) |->
                       [px |-> layer.tiles[k].px, src |-> layer.tiles[k].src,
                        f |-> layer.tiles[k].f, ts |-> layer.ts]]]

\* HasTiles without the test of line 530.
HasTilesAlways(tiles) == TRUE

\* `if not tiles_to_process: continue`, line 530.
HasTiles(tiles) == tiles # <<>>

Report(outcome, layer) ==
  [outcome |-> outcome, layer |-> layer, level |-> level_idx,
   idx |-> layer_idx, nobj |-> Len(objects)]

\* execute, lines 453-541: one layer instance up to the mesh build; the
\* locals of lines 479-484 start empty.  pc "layer_end" stands for the
\* `continue` statements and the end of the loop body.
GatherLayer ==
  /\ pc = "layer"
  /\ TmxIdle
  /\ \E hdr \in EarlyLayerChoices \cup TileLayerChoices :
       LET v == LayerVerdict(hdr, created_materials) IN
       IF v # "gather"
         THEN /\ \E tl \in (IF hdr \in TileLayerChoices THEN UnreadTileSeqs
                                                       ELSE {hdr.tiles}) :
                   /\ layer_instance' = [hdr EXCEPT !.tiles = tl]
                   /\ last_layer' = Report(v, [hdr EXCEPT !.tiles = tl])
              /\ tiles_to_process' = <<>>
              /\ tile_idx' = 0
              /\ IF v = "raised"
                   THEN Stop("RAISED")
                   ELSE pc' = "layer_end" /\ UNCHANGED result
              /\ UNCHANGED objects
         ELSE \E tl \in TileSeqs :
                LET layer == [hdr EXCEPT !.tiles = tl]
                    g == GatheredTiles(layer)
                IN /\ layer_instance' = layer
                   /\ tiles_to_process' = g.tiles
                   /\ IF g.raised
                        THEN /\ last_layer' = Report("raised", layer)
                             /\ Stop("RAISED")
                             /\ tile_idx' = 0
                             /\ UNCHANGED objects
                      ELSE IF ~HasTiles(g.tiles)
                        THEN /\ last_layer' = Report("no_tiles", layer)
                             /\ pc' = "layer_end"
                             /\ tile_idx' = 0
                             /\ UNCHANGED <<result, objects>>
                      ELSE /\ last_layer' = Report("building", layer)
                           /\ objects' = Append(objects,
                                [level |-> level_idx, layer |-> layer_idx,
                                 z |-> z_offset])
                           /\ tile_idx' = 1
                           /\ pc' = "build"
                           /\ UNCHANGED result
  /\ UNCHANGED <<ldtk_data, filepath, processed_filepath, import_scale,
                 data_parsed_for_ui, levels_to_import,
                 bpy_materials, collections, obj, mesh, created_materials,
                 loaded_textures, level_idx, level, layer_idx, z_offset,
                 material_indices, bm, skipped_tiles>>

\* The loop takes the next layer instance of the level, or the level loop
\* its next level; the locals of the finished iteration are dropped.
EndLayer ==
  /\ pc = "layer_end"
  /\ TmxIdle
  /\ IF layer_idx < level.nLayers
       THEN /\ pc' = "layer"
            /\ layer_idx' = layer_idx + 1
            /\ level_idx' = level_idx
       ELSE /\ pc' = "level"
            /\ layer_idx' = layer_idx
            /\ level_idx' = level_idx + 1
  /\ layer_instance' = DefaultLayer
  /\ last_layer' = NoReport
  /\ tiles_to_process' = <<>>
  /\ tile_idx' = 0
  /\ material_indices' = EmptyMap
  /\ skipped_tiles' = {}
  /\ obj' = NoObj
  /\ mesh' = NoBm
  /\ bm' = NoBm
  /\ UNCHANGED <<ldtk_data, filepath, processed_filepath, import_scale,
                 data_parsed_for_ui, levels_to_import,
                 bpy_materials, collections, objects, created_materials,
                 loaded_textures, result, level, z_offset>>

(* --------------------------- mesh compositor --------------------------- *)
\* A vertex coordinate, lines 571-574, for the corner at pixel offset
\* (dx, dy) of the tile, with Y left pointing down.
CoordYDown(px, dx, dy, origin, scale) ==
  << (px[1] + dx + origin[1]) * scale, (px[2] + dy + origin[2]) * scale >>

\* (dx, dy) of the tile: x = (px_x + dx + origin_x)*scale/grid_size and
\* y = -(px_y + dy + origin_y)*scale/grid_size.  The pair holds the two
\* numerators; the denominator grid_size is the same for a whole layer.
Coord(px, dx, dy, origin, scale) ==
  << (px[1] + dx + origin[1]) * scale, -((px[2] + dy + origin[2]) * scale) >>

\* coords = [v1, v2, v3, v4]: top-left, top-right, bottom-right, bottom-left.
QuadCoords(px, tile_w, tile_h, origin, scale) ==
  << Coord(px, 0, 0, origin, scale), Coord(px, tile_w, 0, origin, scale),
     Coord(px, tile_w, tile_h, origin, scale), Coord(px, 0, tile_h, origin, scale) >>

\* The UVs of lines 601-611 as numerators over (img_w, img_h):
\* u_min = src_x, u_max = src_x + tile_w, v_min = img_h - (src_y + tile_h),
\* v_max = img_h - src_y.
QuadUVs(src, tile_w, tile_h, img_h) ==
  LET u_min == src[1]
      u_max == src[1] + tile_w
      v_min == img_h - (src[2] + tile_h)
      v_max == img_h - src[2]
  IN << <<u_min, v_max>>, <<u_max, v_max>>, <<u_max, v_min>>, <<u_min, v_min>> >>

\* FlipX that swaps the top pair only.
FlipXTopOnly(uvs) ==
  << <<uvs[2][1], uvs[1][2]>>, <<uvs[1][1], uvs[2][2]>>, uvs[3], uvs[4] >>

\* Lines 618-620: swap U of corners 0,1 and of corners 3,2.
FlipX(uvs) ==
  << <<uvs[2][1], uvs[1][2]>>, <<uvs[1][1], uvs[2][2]>>,
     <<uvs[4][1], uvs[3][2]>>, <<uvs[3][1], uvs[4][2]>> >>

\* FlipY whose last assignment reads the U of corner 0 instead of its V.
FlipYTypo(uvs) ==
  << <<uvs[1][1], uvs[4][2]>>, <<uvs[2][1], uvs[3][2]>>,
     <<uvs[3][1], uvs[2][2]>>, <<uvs[4][1], uvs[1][1]>> >>

\* Lines 621-623: swap V of corners 0,3 and of corners 1,2.
FlipY(uvs) ==
  << <<uvs[1][1], uvs[4][2]>>, <<uvs[2][1], uvs[3][2]>>,
     <<uvs[3][1], uvs[2][2]>>, <<uvs[4][1], uvs[1][2]>> >>

\* Lines 614-623: flip_x = (f & 1) != 0, flip_y = (f & 2) != 0.
FlippedUVs(uvs, f) ==
  LET a == IF f % 2 = 1 THEN FlipX(uvs) ELSE uvs
  IN IF (f \div 2) % 2 = 1 THEN FlipY(a) ELSE a

\* Whether the UV part of the try block raises: a division by an image
\* dimension of zero (lines 601-604) or `&` on a flip value that is not an
\* integer (line 614).
UVRaises(tile, img_size) ==
  img_size[1] = 0 \/ img_size[2] = 0 \/ tile.f = NotAnInt

\* The face of lines 593-636 for tile k: bm.faces.new(verts) comes first, so
\* when the UV part raises the face is already in the bmesh, without UVs.
NewFace(tile, k, first_vert, mat_idx, tile_w, tile_h, img_size) ==
  [verts |-> <<first_vert, first_vert + 1, first_vert + 2, first_vert + 3>>,
   material_index |-> mat_idx,
   uv |-> IF UVRaises(tile, img_size) THEN <<>>
          ELSE FlippedUVs(QuadUVs(tile.src, tile_w, tile_h, img_size[2]), tile.f),
   tile |-> k]

\* Lines 551-556: the slot of a tileset, a new one when it has none.
SlotFor(indices, ts_uid) ==
  IF ts_uid \in DOMAIN indices THEN indices[ts_uid]
  ELSE Cardinality(DOMAIN indices)

\* execute, lines 546-645: one iteration of the tile loop.
BuildTile ==
  /\ pc = "build"
  /\ TmxIdle
  /\ tile_idx <= Len(tiles_to_process)
  /\ LET tile == tiles_to_process[tile_idx]
     IN IF tile.ts \notin DOMAIN created_materials
          THEN UNCHANGED <<material_indices, obj, bm, skipped_tiles>>
          ELSE LET mat_idx == SlotFor(material_indices, tile.ts)
                   ts_def == ldtk_data.tilesets[tile.ts]
                   tile_w == ts_def.tileGridSize
                   tile_h == tile_w
                   img_size == loaded_textures[tile.ts].size
                   coords == QuadCoords(tile.px, tile_w, tile_h, level.origin,
                                        import_scale)
                   face == NewFace(tile, tile_idx, Len(bm.verts) + 1, mat_idx,
                                   tile_w, tile_h, img_size)
               IN /\ material_indices' = Put(material_indices, tile.ts, mat_idx)
                  /\ obj' =
                       IF tile.ts \in DOMAIN material_indices THEN obj
                       ELSE [obj EXCEPT !.materials =
                                Append(@, created_materials[tile.ts])]
                  /\ bm' = [verts |-> bm.verts \o coords,
                            faces |-> Append(bm.faces, face)]
                  /\ skipped_tiles' =
                       IF UVRaises(tile, img_size)
                         THEN skipped_tiles \cup {tile_idx}
                         ELSE skipped_tiles
  /\ tile_idx' = tile_idx + 1
  /\ UNCHANGED <<ldtk_data, filepath, processed_filepath, import_scale,
                 data_parsed_for_ui, levels_to_import,
                 bpy_materials, collections, objects, mesh, created_materials,
                 loaded_textures, pc, result, level_idx, level, layer_idx,
                 layer_instance, z_offset, tiles_to_process, last_layer>>

(* ------------------------------ finalizer ------------------------------ *)
\* The first vertex at the position of vertex i.
FirstAt(verts, i) ==
  CHOOSE j \in 1..i :
    /\ verts[j] = verts[i]
    /\ \A k \in 1..(j - 1) : verts[k] # verts[i]

\* The bmesh as it is when remove_doubles is left out.
KeepDoubles(b) == b

\* bmesh.ops.remove_doubles(bm, verts=bm.verts, dist=0.0001), line 651:
\* vertices at one position are merged into the first of them, the faces
\* use the merged vertices, a face left with fewer than three corners is
\* dissolved, and of the faces that come to use the same vertices the first
\* stays.  Distinct positions of the model are at least
\* import_scale/grid_size apart, far more than dist.
RemoveDoubles(b) ==
  LET verts == b.verts
      kept == { i \in 1..Len(verts) : FirstAt(verts, i) = i }
      NewIndex(i) == Cardinality({ j \in kept : j <= FirstAt(verts, i) })
      Old(n) == CHOOSE i \in kept : NewIndex(i) = n
      welded == [k \in 1..Len(b.faces) |->
                   [b.faces[k] EXCEPT !.verts = [c \in 1..4 |-> NewIndex(@[c])]]]
      Corners(k) == { welded[k].verts[c] : c \in 1..4 }
      stays == { k \in 1..Len(welded) :
                   /\ Cardinality(Corners(k)) >= 3
                   /\ \A j \in 1..(k - 1) : Corners(j) # Corners(k) }
      Nth(n) == CHOOSE k \in stays : Cardinality({ j \in stays : j <= k }) = n
  IN [verts |-> [n \in 1..Cardinality(kept) |-> verts[Old(n)]],
      faces |-> [n \in 1..Cardinality(stays) |-> welded[Nth(n)]]]

\* A Z offset that stays where it is after a layer.
UnsteppedZ(z) == z

\* Line 660: z_offset -= layer_sep, in units of layer_sep.
SteppedZ(z) == z - 1

\* execute, lines 648-660: weld, commit the mesh, step the Z offset.
Finalize ==
  /\ pc = "build"
  /\ TmxIdle
  /\ tile_idx > Len(tiles_to_process)
  /\ LET m == RemoveDoubles(bm) IN
       /\ mesh' = m
       /\ obj' = [obj EXCEPT !.nfaces = Len(m.faces)]
  /\ bm' = NoBm
  /\ z_offset' = SteppedZ(z_offset)
  /\ last_layer' = [last_layer EXCEPT !.outcome = "finished"]
  /\ pc' = "layer_end"
  /\ UNCHANGED <<ldtk_data, filepath, processed_filepath, import_scale,
                 data_parsed_for_ui, levels_to_import,
                 bpy_materials, collections, objects, created_materials,
                 loaded_textures, result, level_idx, level, layer_idx,
                 layer_instance, tiles_to_process, tile_idx, material_indices,
                 skipped_tiles>>

(* ============================ TMX importer ============================= *)
\* The LDtk operator does not run.
LdtkIdle == UNCHANGED <<importer, imports, registered, panel_buttons, ldtkVars>>

\* LOOP_OFFSET_DICT, load_tilemap.py lines 11-16.
LOOP_OFFSET_DICT == << <<0, 0>>, <<0, 1>>, <<1, 1>>, <<1, 0>> >>

\* bpy.data.materials.new(name=...): the name given, or the first free
\* numeric suffix when a material of that name exists.
UniqueName(mats, base) ==
  LET used == { m.name : m \in mats }
  IN << base, CHOOSE n \in 0..Cardinality(mats) :
                /\ <<base, n>> \notin used
                /\ \A k \in 0..(n - 1) : <<base, k>> \in used >>

\* create_material, lines 98-129: always a new material.
CreateMaterial(mats, material_name, img) ==
  [name |-> UniqueName(mats, material_name), image |-> img]

\* TileData.__post_init__ divides by the image size and by the tile size.
TileDataRaises(ts) ==
  ts.size[1] = 0 \/ ts.size[2] = 0 \/ ts.tilewidth = 0 \/ ts.tileheight = 0

TileDataOf(ts, k, mat_name) ==
  [material |-> mat_name, tileset |-> k, firstgid |-> ts.firstgid,
   tilewidth |-> ts.tilewidth, tileheight |-> ts.tileheight, size |-> ts.size,
   columns |-> ts.size[1] \div ts.tilewidth,
   rows |-> ts.size[2] \div ts.tileheight]

\* dict.get(tileset) of a tileset without an entry: None.
NoTileData ==
  [material |-> <<"", 0>>, tileset |-> 0, firstgid |-> 0, tilewidth |-> 0,
   tileheight |-> 0, size |-> <<0, 0>>, columns |-> 0, rows |-> 0]

\* One iteration of create_material_for_tilesets, lines 79-82, for tileset
\* k; acc = [mats, dict, failed].  The tileset object is the dict key.
TilesetMaterialStep(acc, k) ==
  LET ts == tilemap.tilesets[k] IN
  IF acc.failed THEN acc
  ELSE IF ts.image = "missing" THEN [acc EXCEPT !.failed = TRUE]
  ELSE LET img == [file |-> <<"tmx", k>>, size |-> ts.size]
           mat == CreateMaterial(acc.mats, ts.name, img)
           key == <<imports, k>>
       IN IF TileDataRaises(ts)
            THEN [acc EXCEPT !.mats = @ \cup {mat}, !.failed = TRUE]
            ELSE [acc EXCEPT !.mats = @ \cup {mat},
                             !.dict = IF key \in DOMAIN @ THEN @
                                      ELSE Put(@, key, TileDataOf(ts, k, mat.name))]

\* clean_up that forgets the map only and leaves both dictionaries.
CleanUpKeepsCaches ==
  /\ tilemap' = NoTilemap
  /\ UNCHANGED <<gid_to_tiledata_dict, tileset_to_tiledata_dict>>

\* clean_up, lines 66-69.
CleanUp ==
  /\ tilemap' = NoTilemap
  /\ gid_to_tiledata_dict' = EmptyMap
  /\ tileset_to_tiledata_dict' = EmptyMap

\* execute, lines 52-53 with load_tilemap_file: a missing file leaves
\* self.tilemap None, on which create_material_for_tilesets raises; both
\* that and a load error end in the except branch.
TmxLoad ==
  /\ pc = "tmx_load"
  /\ LdtkIdle
  /\ IF tmx_file.load = "ok"
       THEN /\ tilemap' = tmx_file
            /\ pc' = "tmx_materials"
            /\ UNCHANGED <<result, gid_to_tiledata_dict, tileset_to_tiledata_dict>>
       ELSE CleanUp /\ Stop("CANCELLED")
  /\ UNCHANGED <<tmx_file, bpy_materials, objects, obj, mesh, bm, layer_idx,
                 tmx_layer, cell_idx, verts_map, material_dict, index>>

\* execute, line 54: create_material_for_tilesets, the whole loop.
TmxMaterials ==
  /\ pc = "tmx_materials"
  /\ LdtkIdle
  /\ LET acc == SeqFold(TilesetMaterialStep,
                        [mats |-> bpy_materials,
                         dict |-> tileset_to_tiledata_dict, failed |-> FALSE],
                        [k \in 1..Len(tilemap.tilesets) |-> k], 1)
     IN /\ bpy_materials' = acc.mats
        /\ IF acc.failed
             THEN CleanUp /\ Stop("CANCELLED") /\ UNCHANGED layer_idx
             ELSE /\ tileset_to_tiledata_dict' = acc.dict
                  /\ pc' = "tmx_layer"
                  /\ layer_idx' = 1
                  /\ UNCHANGED <<result, tilemap, gid_to_tiledata_dict>>
  /\ UNCHANGED <<tmx_file, objects, obj, mesh, bm, tmx_layer, cell_idx,
                 verts_map, material_dict, index>>

\* create_objects_for_layers, lines 73-75, and create_mesh_object, lines
\* 133-140: the next layer; a hidden layer or one that is no tile layer is
\* passed over.
TmxBeginLayer ==
  /\ pc = "tmx_layer"
  /\ layer_idx <= tilemap.nLayers
  /\ LdtkIdle
  /\ \E lay \in TmxLayerChoices :
       /\ tmx_layer' = lay
       /\ IF lay.visible /\ lay.kind = "tile"
            THEN pc' = "tmx_cells" /\ cell_idx' = 1
            ELSE pc' = "tmx_layer_end" /\ cell_idx' = 0
  /\ bm' = NoBm
  /\ verts_map' = EmptyMap
  /\ material_dict' = EmptyMap
  /\ index' = 0
  /\ UNCHANGED <<tmx_file, tilemap, gid_to_tiledata_dict,
                 tileset_to_tiledata_dict, bpy_materials, objects, obj, mesh,
                 layer_idx, result>>

\* get_or_create_vert without the lookup: a new vertex for every corner.
AlwaysCreateVert(tile_size, acc, v) ==
  [verts |-> Append(acc.verts, <<v[1] * tile_size, (-v[2]) * tile_size>>),
   map |-> Put(acc.map, <<v[1], -v[2]>>, Len(acc.verts) + 1),
   ids |-> Append(acc.ids, Len(acc.verts) + 1)]

\* get_or_create_vert, lines 185-187, for one corner; acc = [verts, map, ids].
GetOrCreateVert(tile_size, acc, v) ==
  LET key == <<v[1], -v[2]>> IN
  IF key \in DOMAIN acc.map
    THEN [acc EXCEPT !.ids = Append(@, acc.map[key])]
    ELSE [verts |-> Append(acc.verts, <<v[1] * tile_size, (-v[2]) * tile_size>>),
          map |-> Put(acc.map, key, Len(acc.verts) + 1),
          ids |-> Append(acc.ids, Len(acc.verts) + 1)]

\* pytmx get_tileset_from_gid: the tileset with the largest firstgid that
\* is not above the gid (0 when there is none).
TilesetOfGid(map, gid) ==
  LET cand == { k \in 1..Len(map.tilesets) : map.tilesets[k].firstgid <= gid }
  IN IF cand = {} THEN 0
     ELSE CHOOSE k \in cand :
            \A j \in cand : map.tilesets[j].firstgid <= map.tilesets[k].firstgid

\* get_tiledata_from_gid, lines 176-182: [found, tiledata, cache].  A
\* tileset without an entry gives None, which is cached as well.
TiledataFromGid(gid) ==
  IF gid \in DOMAIN gid_to_tiledata_dict
    THEN gid_to_tiledata_dict[gid]
    ELSE LET key == <<imports, TilesetOfGid(tilemap, gid)>>
         IN IF key \in DOMAIN tileset_to_tiledata_dict
              THEN [found |-> TRUE, data |-> tileset_to_tiledata_dict[key]]
              ELSE [found |-> FALSE, data |-> NoTileData]

\* A slot that is the next free one even for a material met before.
TmxSlotAlwaysNext(dict, material, next_index) == next_index

\* The slot of a material, lines 150-154.
TmxSlotFor(dict, material, next_index) ==
  IF material \in DOMAIN dict THEN dict[material] ELSE next_index

\* apply_uv_to_face, lines 190-195, as numerators over the image size.
TmxUVs(local_gid, td) ==
  LET tile_x == local_gid % td.columns
      tile_y == local_gid \div td.columns
  IN [i \in 1..4 |->
        << (tile_x + LOOP_OFFSET_DICT[i][1]) * td.tilewidth,
           td.size[2] - (tile_y + LOOP_OFFSET_DICT[i][2]) * td.tileheight >>]

\* create_mesh_object, lines 142-157: one cell of the layer.  The face is
\* made before the tile data is looked up; an error (no tile data, or a
\* tileset without a column in apply_uv_to_face) ends execute in its except
\* branch.
TmxCell ==
  /\ pc = "tmx_cells"
  /\ cell_idx <= Len(tmx_layer.cells)
  /\ LdtkIdle
  /\ LET gid == tmx_layer.cells[cell_idx]
         x == (cell_idx - 1) % TmxWidth
         y == (cell_idx - 1) \div TmxWidth
     IN IF gid = 0
          THEN /\ cell_idx' = cell_idx + 1
               /\ UNCHANGED <<bm, verts_map, material_dict, index, tilemap,
                              gid_to_tiledata_dict, tileset_to_tiledata_dict,
                              pc, result>>
          ELSE LET Corner(acc, off) ==
                     GetOrCreateVert(1, acc, <<x + off[1], y + off[2]>>)
                   got == SeqFold(Corner, [verts |-> bm.verts, map |-> verts_map,
                                           ids |-> <<>>], LOOP_OFFSET_DICT, 1)
                   td == TiledataFromGid(gid)
                   raises == ~td.found \/ td.data.columns = 0
                   slot == TmxSlotFor(material_dict, td.data.material, index)
                   face == [verts |-> got.ids,
                            material_index |-> IF td.found THEN slot ELSE 0,
                            uv |-> IF raises THEN <<>>
                                   ELSE TmxUVs(gid - td.data.firstgid, td.data),
                            tile |-> cell_idx]
               IN /\ bm' = [verts |-> got.verts, faces |-> Append(bm.faces, face)]
                  /\ verts_map' = got.map
                  /\ IF td.found
                       THEN /\ material_dict' = Put(material_dict, td.data.material, slot)
                            /\ index' = IF td.data.material \in DOMAIN material_dict
                                          THEN index ELSE index + 1
                       ELSE UNCHANGED <<material_dict, index>>
                  /\ IF raises
                       THEN CleanUp /\ Stop("CANCELLED") /\ UNCHANGED cell_idx
                       ELSE /\ gid_to_tiledata_dict' = Put(gid_to_tiledata_dict, gid, td)
                            /\ cell_idx' = cell_idx + 1
                            /\ UNCHANGED <<tilemap, tileset_to_tiledata_dict, pc, result>>
  /\ UNCHANGED <<tmx_file, bpy_materials, objects, obj, mesh, layer_idx, tmx_layer>>

\* sorted_materials, line 166: the materials in slot order.
SortedMaterials(dict) ==
  [i \in 1..Cardinality(DOMAIN dict) |-> CHOOSE m \in DOMAIN dict : dict[m] = i - 1]

\* create_mesh_object, lines 159-174: the mesh, the object, its materials.
TmxCommit ==
  /\ pc = "tmx_cells"
  /\ cell_idx > Len(tmx_layer.cells)
  /\ LdtkIdle
  /\ mesh' = bm
  /\ bm' = NoBm
  /\ objects' = Append(objects, [level |-> 0, layer |-> layer_idx, z |-> 0])
  /\ obj' = [materials |-> SortedMaterials(material_dict), nfaces |-> Len(bm.faces)]
  /\ pc' = "tmx_layer_end"
  /\ UNCHANGED <<tmx_file, tilemap, gid_to_tiledata_dict,
                 tileset_to_tiledata_dict, bpy_materials, layer_idx, tmx_layer,
                 cell_idx, verts_map, material_dict, index, result>>

\* The loop of create_objects_for_layers takes the next layer; the locals of
\* create_mesh_object are gone.
TmxEndLayer ==
  /\ pc = "tmx_layer_end"
  /\ LdtkIdle
  /\ pc' = "tmx_layer"
  /\ layer_idx' = layer_idx + 1
  /\ tmx_layer' = NoTmxLayer
  /\ cell_idx' = 0
  /\ verts_map' = EmptyMap
  /\ material_dict' = EmptyMap
  /\ index' = 0
  /\ obj' = NoObj
  /\ mesh' = NoBm
  /\ bm' = NoBm
  /\ UNCHANGED <<tmx_file, tilemap, gid_to_tiledata_dict,
                 tileset_to_tiledata_dict, bpy_materials, objects, result>>

\* execute, lines 56-57: all layers done.
TmxFinish ==
  /\ pc = "tmx_layer"
  /\ layer_idx > tilemap.nLayers
  /\ LdtkIdle
  /\ CleanUp
  /\ Stop("FINISHED")
  /\ UNCHANGED <<tmx_file, bpy_materials, objects, obj, mesh, bm, layer_idx,
                 tmx_layer, cell_idx, verts_map, material_dict, index>>

\* The user runs the TMX operator again on the same file, in the same
\* Blender session: the materials and the class attributes stay, the scene
\* is looked at anew.
TmxAgain ==
  /\ pc = "done"
  /\ importer = "tmx"
  /\ imports < MaxImports
  /\ imports' = imports + 1
  /\ pc' = "tmx_load"
  /\ result' = "NONE"
  /\ objects' = <<>>
  /\ obj' = NoObj
  /\ mesh' = NoBm
  /\ bm' = NoBm
  /\ layer_idx' = 0
  /\ tmx_layer' = NoTmxLayer
  /\ cell_idx' = 0
  /\ verts_map' = EmptyMap
  /\ material_dict' = EmptyMap
  /\ index' = 0
  /\ UNCHANGED <<importer, registered, panel_buttons, ldtkVars, tmx_file,
                 tilemap, gid_to_tiledata_dict,
                 tileset_to_tiledata_dict, bpy_materials>>

Next ==
  \/ Open
  \/ Populate
  \/ Tilesets
  \/ BeginLevel
  \/ GatherLayer
  \/ BuildTile
  \/ Finalize
  \/ EndLayer
  \/ Finish
  \/ TmxLoad
  \/ TmxMaterials
  \/ TmxBeginLayer
  \/ TmxCell
  \/ TmxCommit
  \/ TmxEndLayer
  \/ TmxFinish

Spec == Init /\ [][Next]_vars
\* The TMX operator alone, run up to MaxImports times on one file.
NextTmx ==
  \/ TmxLoad
  \/ TmxMaterials
  \/ TmxBeginLayer
  \/ TmxCell
  \/ TmxCommit
  \/ TmxEndLayer
  \/ TmxFinish
  \/ TmxAgain

SpecTmx == InitTmx /\ [][NextTmx]_vars

(* ------------------- LDtk operator in the file browser ----------------- *)
\* What no event of the file browser touches.
sceneVars == <<import_scale, bpy_materials, collections, objects, obj, mesh,
               created_materials, loaded_textures, result, level_idx, level,
               layer_idx, layer_instance, z_offset, tiles_to_process, tile_idx,
               material_indices, bm, skipped_tiles, last_layer, importer,
               imports, registered, panel_buttons, tmxVars>>

\* The LDtk operator was invoked in a new session: the file browser is
\* open, no file is selected, nothing was parsed.
InitUi ==
  /\ Session
  /\ importer = "ldtk"
  /\ pc = "browse"
  /\ filepath = ""
  /\ registered = AllRegistered
  /\ ldtk_data = UiDocument("")
  /\ import_scale = 2
  /\ tmx_file = NoTmxFile

\* The user selects another file: ImportHelper sets self.filepath.
SetFilepath(path) ==
  /\ pc = "browse"
  /\ path # filepath
  /\ filepath' = path
  /\ ldtk_data' = UiDocument(path)
  /\ UNCHANGED <<processed_filepath, data_parsed_for_ui, levels_to_import, pc,
                 sceneVars>>

\* draw, lines 267-315: when the path is not the processed one, clear the
\* options, parse the file when it exists and can be read, and mark the
\* path as processed.
Draw ==
  /\ pc = "browse"
  /\ IF filepath # processed_filepath
       THEN /\ levels_to_import' =
                 IF ldtk_data.readable THEN PopulatedLevels(ldtk_data) ELSE <<>>
            /\ data_parsed_for_ui' = (ldtk_data.readable /\ PopulatedFlag(ldtk_data))
            /\ processed_filepath' = filepath
       ELSE UNCHANGED <<levels_to_import, data_parsed_for_ui, processed_filepath>>
  /\ UNCHANGED <<ldtk_data, filepath, pc, sceneVars>>

\* The user clicks the import_level checkbox draw laid out for level i
\* (line 301); draw lays the list out only when the flag is set.
ToggleLevel(i) ==
  /\ pc = "browse"
  /\ data_parsed_for_ui
  /\ i \in 1..Len(levels_to_import)
  /\ levels_to_import' =
       [levels_to_import EXCEPT ![i].import_level = ~levels_to_import[i].import_level]
  /\ UNCHANGED <<ldtk_data, filepath, processed_filepath, data_parsed_for_ui,
                 pc, sceneVars>>

\* The user confirms the file browser: Blender calls execute.
Confirm ==
  /\ pc = "browse"
  /\ pc' = "open"
  /\ UNCHANGED <<ldtk_data, filepath, processed_filepath, data_parsed_for_ui,
                 levels_to_import, sceneVars>>

\* The user invokes the operator again after execute returned: its
\* properties are the ones the last run left, the locals of execute are new.
LdtkAgain ==
  /\ pc = "done"
  /\ importer = "ldtk"
  /\ imports < MaxImports
  /\ imports' = imports + 1
  /\ pc' = "browse"
  /\ result' = "NONE"
  /\ created_materials' = EmptyMap
  /\ loaded_textures' = EmptyMap
  /\ collections' = 0
  /\ objects' = <<>>
  /\ level_idx' = 0
  /\ level' = NoLevel
  /\ layer_idx' = 0
  /\ layer_instance' = DefaultLayer
  /\ z_offset' = 0
  /\ tiles_to_process' = <<>>
  /\ tile_idx' = 0
  /\ material_indices' = EmptyMap
  /\ bm' = NoBm
  /\ obj' = NoObj
  /\ mesh' = NoBm
  /\ skipped_tiles' = {}
  /\ last_layer' = NoReport
  /\ UNCHANGED <<ldtk_data, filepath, processed_filepath, import_scale,
                 data_parsed_for_ui, levels_to_import, bpy_materials, importer,
                 registered, panel_buttons, tmxVars>>

\* The LDtk operator with its file browser, on files whose levels have no
\* layer instance.
NextUi ==
  \/ \E path \in UiPaths : SetFilepath(path)
  \/ Draw
  \/ \E i \in 1..MaxLevels : ToggleLevel(i)
  \/ Confirm
  \/ Open
  \/ Populate
  \/ Tilesets
  \/ BeginLevel
  \/ Finish
  \/ LdtkAgain

SpecUi == InitUi /\ [][NextUi]_vars

(* --------------------- the add-on and its panel ------------------------ *)
\* What registering and drawing the panel leave alone.
operatorVars == <<ldtk_data, filepath, processed_filepath, import_scale,
                  data_parsed_for_ui, levels_to_import, bpy_materials,
                  collections, objects, obj, mesh, created_materials,
                  loaded_textures, result, level_idx, level, layer_idx,
                  layer_instance, z_offset, tiles_to_process, tile_idx,
                  material_indices, bm, skipped_tiles, last_layer, imports,
                  tmxVars>>

\* A new Blender session in which the add-on is not enabled yet.
InitAddon ==
  /\ Session
  /\ importer = "none"
  /\ pc = "disabled"
  /\ registered = {}
  /\ filepath = ""
  /\ ldtk_data = UiDocument("")
  /\ import_scale = 2
  /\ tmx_file = NoTmxFile

\* register() of __init__.py, lines 23-25: every submodule registers its
\* classes.
Register ==
  /\ pc = "disabled"
  /\ registered' = AllRegistered
  /\ pc' = "panel"
  /\ UNCHANGED <<panel_buttons, importer, operatorVars>>

\* unregister() of __init__.py, lines 28-30.
Unregister ==
  /\ pc = "panel"
  /\ registered' = {}
  /\ panel_buttons' = {}
  /\ pc' = "disabled"
  /\ UNCHANGED <<importer, operatorVars>>

\* VIEW3D_PT_TileMapToMeshPanel.draw, lines 10-19: box.operator lays a
\* button out for an operator id Blender knows, and none for an unknown one.
PanelDraw ==
  /\ pc = "panel"
  /\ "VIEW3D_PT_TileMapToMeshPanel" \in registered
  /\ panel_buttons' = PanelOperatorIds \cap OperatorIds(registered)
  /\ UNCHANGED <<registered, pc, importer, operatorVars>>

\* The user clicks a button of the panel: Blender invokes the operator of
\* that id, which opens the file browser (ImportHelper.invoke).
Click(id) ==
  /\ pc = "panel"
  /\ id \in panel_buttons
  /\ LET c == CHOOSE cl \in registered \cap DOMAIN BlIdname : BlIdname[cl] = id
     IN IF c = "UTIL_OP_LoadLdtk"
          THEN importer' = "ldtk" /\ pc' = "browse"
          ELSE importer' = "tmx" /\ pc' = "tmx_load"
  /\ UNCHANGED <<registered, panel_buttons, operatorVars>>

\* The add-on from its registration on: the panel and the operator its
\* button starts.
NextAddon ==
  \/ Register
  \/ Unregister
  \/ PanelDraw
  \/ \E id \in PanelOperatorIds : Click(id)
  \/ \E path \in UiPaths : SetFilepath(path)
  \/ Draw
  \/ \E i \in 1..MaxLevels : ToggleLevel(i)
  \/ Confirm
  \/ Open
  \/ Populate
  \/ Tilesets
  \/ BeginLevel
  \/ Finish
  \/ LdtkAgain

SpecAddon == InitAddon /\ [][NextAddon]_vars

(* ============================== claims ================================= *)
\* There is a report of the LDtk importer about the layer instance at hand.
Reported == importer = "ldtk" /\ last_layer.outcome # "none"

\* A layer instance that is selected for import, has its required keys and
\* has a layer definition.
WellFormed(l) == l.iid /\ l.missing = "none" /\ l.defFound

\* The layer at hand was left without object and without mesh, and the
\* import is at the end of the loop body, going on with the next layer.
LeftWithoutObject ==
  /\ pc = "layer_end"
  /\ result = "NONE"
  /\ Len(objects) = last_layer.nobj
  /\ obj = NoObj
  /\ mesh = NoBm
  /\ bm = NoBm

\* The layers C1 is about.
NoMeshLayer(l) ==
  \/ ~l.visible
  \/ l.type = "Entities"
  \/ l.type \notin {"Tiles", "AutoLayer", "IntGrid"}
  \/ l.type = "IntGrid" /\ ~l.hasVisual

\* C1: a selected, well-formed LDtk layer instance that is hidden, of type
\* Entities, of an unsupported type, or an IntGrid layer without visual tile
\* mapping makes no object and no mesh whatever its tile lists hold, and the
\* import goes on with the next layer.
C1_SkippedLayerMakesNoObject ==
  (Reported /\ WellFormed(last_layer.layer) /\ NoMeshLayer(last_layer.layer))
    => LeftWithoutObject

\* C1: a hidden Tiles layer with a tile was left without object, with another
\* layer of the level still to come.
C1_HiddenLayerWithTilesSkipped ==
  /\ Reported
  /\ WellFormed(last_layer.layer)
  /\ ~last_layer.layer.visible
  /\ last_layer.layer.type = "Tiles"
  /\ last_layer.layer.tiles # <<>>
  /\ LeftWithoutObject
  /\ layer_idx < level.nLayers

\* The slot of x by first encounter in seq: the number of distinct values
\* met before the first x.
EncounterSlot(seq, x) ==
  LET first == CHOOSE i \in 1..Len(seq) :
                 seq[i] = x /\ \A j \in 1..(i - 1) : seq[j] # x
  IN Cardinality({ seq[j] : j \in 1..(first - 1) })

Range(seq) == { seq[i] : i \in 1..Len(seq) }

\* The tileset ids of the tiles walked so far in the LDtk layer at hand.
LdtkWalked == [k \in 1..(tile_idx - 1) |-> tiles_to_process[k].ts]

LdtkSlotsByEncounter ==
  (importer = "ldtk" /\ last_layer.outcome \in {"building", "finished"}) =>
    LET faces == IF pc = "build" THEN bm.faces ELSE mesh.faces IN
    /\ DOMAIN material_indices = Range(LdtkWalked)
    /\ Len(obj.materials) = Cardinality(Range(LdtkWalked))
    /\ \A u \in Range(LdtkWalked) :
         /\ material_indices[u] = EncounterSlot(LdtkWalked, u)
         /\ obj.materials[EncounterSlot(LdtkWalked, u) + 1] = created_materials[u]
    /\ \A n \in 1..Len(faces) :
         faces[n].material_index =
           EncounterSlot(LdtkWalked, tiles_to_process[faces[n].tile].ts)

\* The cells with a tile walked so far in the TMX layer at hand, and the
\* tileset of each.
TmxWalkedCells ==
  LET Tiled(k) == tmx_layer.cells[k] # 0
  IN SelectSeq([k \in 1..(cell_idx - 1) |-> k], Tiled)
TmxWalked ==
  [n \in 1..Len(TmxWalkedCells) |->
     TilesetOfGid(tmx_file, tmx_layer.cells[TmxWalkedCells[n]])]
TmxMaterialOf(t) == tileset_to_tiledata_dict[<<imports, t>>].material

TmxSlotsByEncounter ==
  (importer = "tmx" /\ pc \in {"tmx_cells", "tmx_layer_end"}) =>
    LET faces == IF pc = "tmx_cells" THEN bm.faces ELSE mesh.faces IN
    /\ DOMAIN material_dict = { TmxMaterialOf(t) : t \in Range(TmxWalked) }
    /\ \A t \in Range(TmxWalked) :
         /\ material_dict[TmxMaterialOf(t)] = EncounterSlot(TmxWalked, t)
         /\ (pc = "tmx_layer_end") =>
              obj.materials[EncounterSlot(TmxWalked, t) + 1] = TmxMaterialOf(t)
    /\ (pc = "tmx_layer_end") =>
         Len(obj.materials) = Cardinality(Range(TmxWalked))
    /\ \A n \in 1..Len(faces) :
         faces[n].material_index =
           EncounterSlot(TmxWalked,
                         TilesetOfGid(tmx_file, tmx_layer.cells[faces[n].tile]))

\* C2: during and after the mesh build of one layer, in both importers, the
\* k-th distinct tileset met in the tile walk has slot k (from 0), every
\* face has the slot of its own tileset, and the object's material list has
\* that tileset's material at position k.
C2_SlotsInFirstEncounterOrder == LdtkSlotsByEncounter /\ TmxSlotsByEncounter

\* C2: a TMX layer whose tiles use the tilesets B, A, B, C in this order was
\* committed with the materials B, A, C in slots 0, 1, 2.
C2_LayerBABC ==
  /\ importer = "tmx"
  /\ pc = "tmx_layer_end"
  /\ tmx_layer.cells = <<3, 1, 3, 5>>
  /\ obj.materials = << <<"B", 0>>, <<"A", 0>>, <<"C", 0>> >>
  /\ [n \in 1..4 |-> mesh.faces[n].material_index] = <<0, 1, 0, 2>>

\* The integer-grid index as the specification states it.
FloorIndex(px, grid_size, grid_width) ==
  (px[1] \div grid_size) + (px[2] \div grid_size) * grid_width

Aligned(px) == px[1] % GridSize = 0 /\ px[2] % GridSize = 0

\* C3: of an IntGrid layer with visual tile mapping whose tiles were read,
\* exactly the tiles are emitted whose cell
\* intGridCsv[floor(px_x/gridSize) + floor(px_y/gridSize)*gridWidth] is not
\* zero, for aligned and unaligned positions inside the layer alike.
C3_IntGridFilterByFloorIndex ==
  (/\ Reported
   /\ WellFormed(last_layer.layer)
   /\ last_layer.layer.type = "IntGrid"
   /\ last_layer.outcome \in {"raised", "no_tiles", "building", "finished"})
  => LET l == last_layer.layer
         Emitted(t) == l.csv[FloorIndex(t.px, GridSize, CWid) + 1] # 0
     IN /\ last_layer.outcome # "raised"
        /\ [k \in 1..Len(tiles_to_process) |->
              [px |-> tiles_to_process[k].px, src |-> tiles_to_process[k].src,
               f |-> tiles_to_process[k].f]]
           = SelectSeq(l.tiles, Emitted)

\* A visible layer with tiles to show whose tileset has no material.
TilesetWithoutMaterial(l) ==
  /\ l.visible
  /\ l.type \in {"Tiles", "AutoLayer"} \/ (l.type = "IntGrid" /\ l.hasVisual)
  /\ l.ts # None
  /\ l.ts \notin DOMAIN created_materials

\* C4, as the code has it: a layer whose tileset has no material is skipped
\* as a whole before its tiles are read (no object, no mesh, the import goes
\* on); so every tile that reaches the tile loop has a material, and the
\* test of a single tile there never drops one.
C4_MissingTilesetSkipsLayer ==
  /\ (Reported /\ WellFormed(last_layer.layer)
        /\ TilesetWithoutMaterial(last_layer.layer))
       => (/\ last_layer.outcome = "no_material"
           /\ tiles_to_process = <<>>
           /\ LeftWithoutObject)
  /\ (importer = "ldtk" /\ pc = "build")
       => \A k \in 1..Len(tiles_to_process) :
            tiles_to_process[k].ts \in DOMAIN created_materials

\* C4: a Tiles layer with a tile, whose tileset has no material, was skipped,
\* with another layer of the level still to come.
C4_LayerWithoutMaterialSkipped ==
  /\ Reported
  /\ WellFormed(last_layer.layer)
  /\ TilesetWithoutMaterial(last_layer.layer)
  /\ last_layer.layer.type = "Tiles"
  /\ last_layer.layer.tiles # <<>>
  /\ last_layer.outcome = "no_material"
  /\ layer_idx < level.nLayers

\* C4, as the specification has it: a missing tileset does not make the
\* importer skip the whole layer; the layer's tiles are walked.
C4_MissingTilesetDropsTileOnly ==
  (Reported /\ WellFormed(last_layer.layer)
     /\ TilesetWithoutMaterial(last_layer.layer)
     /\ last_layer.layer.tiles # <<>>)
    => last_layer.outcome # "no_material"

\* A layer without qualifying tile: no tile at all, an empty intGridCsv, or
\* grid-aligned tiles that all lie on a zero cell.
NoQualifyingTile(l) ==
  IF l.type = "IntGrid"
    THEN \/ l.csv = <<>>
         \/ \A k \in 1..Len(l.tiles) :
              /\ Aligned(l.tiles[k].px)
              /\ l.csv[FloorIndex(l.tiles[k].px, GridSize, CWid) + 1] = 0
    ELSE l.tiles = <<>>

NoDoubles(m) ==
  \A i, j \in 1..Len(m.verts) : i # j => m.verts[i] # m.verts[j]

\* Every corner of every face of the committed mesh is at the position the
\* tile has there.
LdtkCorners ==
  importer = "ldtk" =>
    \A n \in 1..Len(mesh.faces) :
      LET tile == tiles_to_process[mesh.faces[n].tile]
          tile_w == ldtk_data.tilesets[tile.ts].tileGridSize
      IN [c \in 1..4 |-> mesh.verts[mesh.faces[n].verts[c]]]
           = QuadCoords(tile.px, tile_w, tile_w, level.origin, import_scale)
TmxCorners ==
  importer = "tmx" =>
    \A n \in 1..Len(mesh.faces) :
      LET x == (mesh.faces[n].tile - 1) % TmxWidth
          y == (mesh.faces[n].tile - 1) \div TmxWidth
      IN [c \in 1..4 |-> mesh.verts[mesh.faces[n].verts[c]]]
           = [c \in 1..4 |-> << x + LOOP_OFFSET_DICT[c][1],
                                -(y + LOOP_OFFSET_DICT[c][2]) >>]

\* C6: the committed mesh of a layer, in both importers, has no two
\* vertices at one position, while every face corner is where its tile has
\* it: tiles that share a grid edge use the same two vertices there.
C6_CommittedMeshIsWelded == NoDoubles(mesh) /\ LdtkCorners /\ TmxCorners

\* C6: two LDtk tiles side by side were committed as two faces on six
\* vertices.
C6_TwoTilesShareAnEdge ==
  /\ importer = "ldtk"
  /\ pc = "layer_end"
  /\ Len(mesh.faces) = 2
  /\ Len(mesh.verts) = 6

\* C7: whenever the LDtk file was read and parsed, execute returns FINISHED,
\* also for a document without levels.
C7_ParsedImportFinishes ==
  (importer = "ldtk" /\ pc = "done" /\ ldtk_data.readable) => result = "FINISHED"

\* An error is raised in the layer at hand: the LDtk layer walk raised, or
\* the TMX cell at hand has a tileset whose image is narrower than a tile.
LayerError ==
  \/ importer = "ldtk" /\ last_layer.outcome = "raised"
  \/ /\ importer = "tmx"
     /\ cell_idx \in 1..Len(tmx_layer.cells)
     /\ tmx_layer.cells[cell_idx] # 0
     /\ LET ts == tmx_file.tilesets[TilesetOfGid(tmx_file, tmx_layer.cells[cell_idx])]
        IN ts.size[1] < ts.tilewidth

\* C8: an error raised in one layer does not end the import: execute neither
\* raises nor cancels because of it.
C8_LayerErrorAbortsOnlyLayer ==
  LayerError => result \notin {"RAISED", "CANCELLED"}

\* C9: the finalized mesh of an LDtk layer has no face of a tile that was
\* reported as skipped.
C9_SkippedTileLeavesNoFace ==
  (importer = "ldtk" /\ last_layer.outcome = "finished") =>
    \A k \in skipped_tiles :
      \A n \in 1..Len(mesh.faces) : mesh.faces[n].tile # k

\* C10: importing a file again leaves the set of materials as the first
\* import left it.
C10_ReimportKeepsMaterials ==
  [][imports > 1 => bpy_materials' = bpy_materials]_vars

\* The source file could not be read or parsed.
SourceUnreadable ==
  \/ importer = "ldtk" /\ ~ldtk_data.readable
  \/ importer = "tmx" /\ tmx_file.load # "ok"

\* C11: an import whose source file cannot be read or parsed never creates
\* a material, a level collection or an object, and ends CANCELLED.
C11_UnreadableSourceCancels ==
  SourceUnreadable =>
    /\ bpy_materials = {}
    /\ collections = 0
    /\ objects = <<>>
    /\ pc = "done" => result = "CANCELLED"

\* C11: an import of a TMX file that is not there has ended.
C11_MissingTmxFileCancelled ==
  /\ importer = "tmx"
  /\ tmx_file.load = "not_found"
  /\ pc = "done"
  /\ result = "CANCELLED"

\* C12: every toggle is at its default (no toggle is changed between
\* populating and importing), so no layer instance of an imported level is
\* skipped as not selected, whatever identifiers it carries.
C12_DefaultTogglesSkipNothing ==
  (Reported /\ \A i \in 1..Len(levels_to_import) : levels_to_import[i].import_level)
    => last_layer.outcome # "not_selected"

\* C13: an object made for a layer has at least one face in its committed
\* mesh, in both importers.
C13_EveryObjectHasAFace ==
  /\ (importer = "ldtk" /\ last_layer.outcome = "finished") => obj.nfaces >= 1
  /\ (importer = "tmx" /\ pc = "tmx_layer_end" /\ cell_idx > 0) => obj.nfaces >= 1

\* The faces of the LDtk layer at hand, in the bmesh or in the committed mesh.
LdtkFaces == IF pc = "build" THEN bm.faces ELSE mesh.faces

\* The UV of corner c (1 top-left, 2 top-right, 3 bottom-right, 4
\* bottom-left) as the specification states it, as numerators over the
\* image size: U is the left edge for a left corner unless bit 0 of f is
\* set, V is the top edge for a top corner unless bit 1 of f is set.
ExpectedUV(tile, c, tile_w, tile_h, img_h) ==
  LET left == c \in {1, 4}
      top == c \in {1, 2}
      flip_x == tile.f % 2 = 1
      flip_y == (tile.f \div 2) % 2 = 1
  IN << IF left # flip_x THEN tile.src[1] ELSE tile.src[1] + tile_w,
        IF top # flip_y THEN img_h - tile.src[2]
                        ELSE img_h - (tile.src[2] + tile_h) >>

\* C14: every LDtk face whose UVs were assigned has, at its i-th corner in
\* the order top-left, top-right, bottom-right, bottom-left, the UV of that
\* corner with U swapped within the top and the bottom pair iff bit 0 of f
\* is set, and V swapped within the left and the right pair iff bit 1 is set.
C14_UVsFollowFlipBits ==
  (importer = "ldtk" /\ last_layer.outcome \in {"building", "finished"}) =>
    \A n \in 1..Len(LdtkFaces) :
      LET face == LdtkFaces[n]
          tile == tiles_to_process[face.tile]
          tile_w == ldtk_data.tilesets[tile.ts].tileGridSize
          img == loaded_textures[tile.ts].size
      IN (tile.f \in 0..3 /\ img[1] # 0 /\ img[2] # 0) =>
           face.uv = [c \in 1..4 |-> ExpectedUV(tile, c, tile_w, tile_w, img[2])]

\* C14: a tile with both flip bits set was committed with UVs, which are
\* not those of the unflipped tile.
C14_FaceFlippedBothWays ==
  /\ importer = "ldtk"
  /\ last_layer.outcome = "finished"
  /\ \E n \in 1..Len(mesh.faces) :
       LET tile == tiles_to_process[mesh.faces[n].tile]
       IN /\ tile.f = 3
          /\ mesh.faces[n].uv # <<>>
          /\ mesh.faces[n].uv[1] # mesh.faces[n].uv[3]
          /\ mesh.faces[n].uv[1] = <<tile.src[1] + 2, 2 - (tile.src[2] + 2)>>

\* The UV rectangle of the tile of a face, before any flip.
UnflippedUVs(face) ==
  LET tile == tiles_to_process[face.tile]
      tile_w == ldtk_data.tilesets[tile.ts].tileGridSize
  IN QuadUVs(tile.src, tile_w, tile_w, loaded_textures[tile.ts].size[2])

\* C15: for the UV rectangle of every tile built, the horizontal flip
\* followed by the vertical flip gives the same UVs as the vertical flip
\* followed by the horizontal one, and a tile flipped both ways carries them.
C15_FlipsCommute ==
  (importer = "ldtk" /\ last_layer.outcome \in {"building", "finished"}) =>
    \A n \in 1..Len(LdtkFaces) :
      LET q == UnflippedUVs(LdtkFaces[n])
      IN /\ FlipY(FlipX(q)) = FlipX(FlipY(q))
         /\ (tiles_to_process[LdtkFaces[n].tile].f = 3 /\ LdtkFaces[n].uv # <<>>)
              => LdtkFaces[n].uv = FlipX(FlipY(q))

\* C15: a tile flipped both ways is in the bmesh, and each flip alone
\* changes its UV rectangle.
C15_BothFlipsApplied ==
  /\ importer = "ldtk"
  /\ pc = "build"
  /\ \E n \in 1..Len(bm.faces) :
       LET q == UnflippedUVs(bm.faces[n])
       IN /\ tiles_to_process[bm.faces[n].tile].f = 3
          /\ bm.faces[n].uv # <<>>
          /\ FlipX(q) # q
          /\ FlipY(q) # q
          /\ FlipX(q) # FlipY(q)

\* The position of corner c of a tile as the specification states it, as
\* numerators over grid_size: the corner offsets are (0,0), (w,0), (w,h),
\* (0,h), X grows to the right and Y is negated.
ExpectedCorner(tile, c, w, h, origin, scale) ==
  LET off == << <<0, 0>>, <<w, 0>>, <<w, h>>, <<0, h>> >>[c]
      pixel_x == tile.px[1] + off[1]
      pixel_y == tile.px[2] + off[2]
  IN << (pixel_x + origin[1]) * scale, 0 - (pixel_y + origin[2]) * scale >>

\* C16: the i-th vertex of every LDtk face lies at the i-th corner of its
\* tile in the order top-left, top-right, bottom-right, bottom-left, at
\* X = (pixel X + origin X) * scale / grid size and
\* Y = -(pixel Y + origin Y) * scale / grid size.
C16_CornersInBlenderSpace ==
  (importer = "ldtk" /\ last_layer.outcome \in {"building", "finished"}) =>
    LET m == IF pc = "build" THEN bm ELSE mesh
    IN \A n \in 1..Len(m.faces) :
         LET tile == tiles_to_process[m.faces[n].tile]
             tile_w == ldtk_data.tilesets[tile.ts].tileGridSize
         IN \A c \in 1..4 :
              m.verts[m.faces[n].verts[c]]
                = ExpectedCorner(tile, c, tile_w, tile_w, level.origin, import_scale)

\* C16: a tile at pixel (2, 0) of a level whose world origin is (4, 2) was
\* committed with its top-left corner at (6 * scale, -2 * scale).
C16_TileInOffsetLevel ==
  /\ importer = "ldtk"
  /\ last_layer.outcome = "finished"
  /\ level.origin = <<4, 2>>
  /\ \E n \in 1..Len(mesh.faces) :
       /\ tiles_to_process[mesh.faces[n].tile].px = <<2, 0>>
       /\ mesh.verts[mesh.faces[n].verts[1]] = <<12, -4>>
       /\ mesh.verts[mesh.faces[n].verts[3]] = <<16, -8>>

\* A TMX map that loads, whose images all decode, and in which the only
\* fault is a tileset with tiles of width or height zero.
ZeroTileSizeOnly ==
  /\ importer = "tmx"
  /\ tmx_file.load = "ok"
  /\ \E k \in 1..Len(tmx_file.tilesets) :
       tmx_file.tilesets[k].tilewidth = 0 \/ tmx_file.tilesets[k].tileheight = 0
  /\ \A k \in 1..Len(tmx_file.tilesets) :
       /\ tmx_file.tilesets[k].image = "ok"
       /\ tmx_file.tilesets[k].size[1] # 0
       /\ tmx_file.tilesets[k].size[2] # 0

\* C17: a tileset with a tile width or height of zero affects only that
\* tileset: the import of such a map still finishes, with the material of
\* every tileset created before and after it.
C17_ZeroTileSizeAffectsOnlyTileset ==
  (ZeroTileSizeOnly /\ pc = "done") =>
    /\ result = "FINISHED"
    /\ Cardinality(bpy_materials) = Len(tmx_file.tilesets)

\* A layer's bmesh is being built (before the finalizer).
Building == pc \in {"build", "tmx_cells"}

EarlierInLevel(i) ==
  Cardinality({ j \in 1..(i - 1) : objects[j].level = objects[i].level })

\* C19: in the LDtk importer the i-th object of a level lies i - 1 layer
\* separations below Z 0 (the first at 0, each next one exactly one
\* separation further, layers without object not counted), and while the
\* tiles of a layer are built the offset stays the one of its object.
C19_ObjectsOneSeparationApart ==
  importer = "ldtk" =>
    /\ \A i \in 1..Len(objects) : objects[i].z = 0 - EarlierInLevel(i)
    /\ pc = "build" => z_offset = objects[Len(objects)].z

\* C19: the first level made its only object from its second layer, at
\* Z 0 (its first layer made none), and the second level made two objects,
\* the second one separation below the first.
C19_ObjectsOfTwoLevels ==
  /\ importer = "ldtk"
  /\ last_layer.outcome = "finished"
  /\ Len(objects) = 3
  /\ objects[1] = [level |-> 1, layer |-> 2, z |-> 0]
  /\ objects[2] = [level |-> 2, layer |-> 1, z |-> 0]
  /\ objects[3] = [level |-> 2, layer |-> 2, z |-> -1]

\* The image the material in slot `slot` of the object at hand displays.
ImageOfSlot(slot) ==
  (CHOOSE m \in bpy_materials : m.name = obj.materials[slot + 1]).image

\* C20: for every face an LDtk import has committed with UVs, the material
\* in the face's slot displays the image whose size normalised the UVs of
\* the face, i.e. the image loaded for the tileset of its tile.
C20_MaterialShowsImageOfUVs ==
  (importer = "ldtk" /\ last_layer.outcome = "finished") =>
    \A n \in 1..Len(mesh.faces) :
      mesh.faces[n].uv # <<>> =>
        ImageOfSlot(mesh.faces[n].material_index)
          = loaded_textures[tiles_to_process[mesh.faces[n].tile].ts]

\* execute has passed lines 331-348 and processes levels, or has done so.
ProcessesLevels ==
  \/ pc \in {"tilesets", "level"}
  \/ pc = "done" /\ result = "FINISHED" /\ levels_to_import # <<>>

\* The options were successfully parsed for the current filepath.
ParsedForCurrentFile == data_parsed_for_ui /\ processed_filepath = filepath

\* levels_to_import lists the levels of the document at the current
\* filepath, whatever its toggles.
ListedFromCurrentFile ==
  /\ ldtk_data = UiDocument(filepath)
  /\ Len(levels_to_import) = ldtk_data.nLevels
  /\ \A k \in 1..Len(levels_to_import) :
       levels_to_import[k].level_iid = <<filepath, k>>

\* Where execute processes levels the flag is set and the list is the one
\* of the current file; when it has finished, it has made a collection for
\* exactly the levels whose toggle is set.
C21_ExecuteUsesCurrentList ==
  /\ ProcessesLevels => (ParsedForCurrentFile /\ ListedFromCurrentFile)
  /\ (pc = "done" /\ result = "FINISHED") =>
       collections
         = Cardinality({ k \in 1..Len(levels_to_import) :
                           levels_to_import[k].import_level })

\* A step of execute leaves the list, toggles included, as it is when the
\* options were parsed for the current filepath.
C21_ExecuteKeepsParsedList ==
  (pc \notin {"browse", "done"} /\ ParsedForCurrentFile)
    => levels_to_import' = levels_to_import

\* C21: in every interleaving of file selections, draw calls, toggle edits
\* and execute of the LDtk operator, execute processes levels only with the
\* flag set and the list populated from the file at the current filepath,
\* re-populates the list only when it was not parsed for that filepath,
\* and applies the toggles the list then has.
C21_ExecuteAppliesCurrentToggles ==
  []C21_ExecuteUsesCurrentList /\ [][C21_ExecuteKeepsParsedList]_vars

\* C21: the user drew file "a", switched its first level off, and execute
\* finished on "a" with a collection for the second level only, the toggles
\* still as edited.
C21_EditedTogglesApplied ==
  /\ importer = "ldtk"
  /\ pc = "done"
  /\ result = "FINISHED"
  /\ filepath = "a"
  /\ levels_to_import = << [level_iid |-> <<"a", 1>>, import_level |-> FALSE],
                           [level_iid |-> <<"a", 2>>, import_level |-> TRUE] >>
  /\ collections = 1

\* The tile data a lookup of gid finds in the tilesets of the map at hand,
\* without the gid cache.
UncachedTiledata(gid) ==
  LET key == <<imports, TilesetOfGid(tilemap, gid)>>
  IN IF key \in DOMAIN tileset_to_tiledata_dict
       THEN [found |-> TRUE, data |-> tileset_to_tiledata_dict[key]]
       ELSE [found |-> FALSE, data |-> NoTileData]

\* C22: when an execute of the TMX importer has returned, FINISHED or
\* CANCELLED, both class-level dictionaries are empty and tilemap is None;
\* hence, during an import, every entry of the dictionaries was made by this
\* import: a tileset entry belongs to a tileset of the map loaded by it, and
\* a cached gid gives what the lookup in that map gives.
C22_CachesEmptyAfterExecute ==
  importer = "tmx" =>
    /\ pc \in {"done", "tmx_load"} =>
         /\ gid_to_tiledata_dict = EmptyMap
         /\ tileset_to_tiledata_dict = EmptyMap
         /\ tilemap = NoTilemap
    /\ \A key \in DOMAIN tileset_to_tiledata_dict : key[1] = imports
    /\ \A gid \in DOMAIN gid_to_tiledata_dict :
         gid_to_tiledata_dict[gid] = UncachedTiledata(gid)

\* C22: a second import of the session has looked tiles up, made an object
\* and returned FINISHED.
C22_SecondImportReturned ==
  /\ importer = "tmx"
  /\ imports = 2
  /\ pc = "done"
  /\ result = "FINISHED"
  /\ \E n \in 1..Len(objects) : TRUE
  /\ \E m \in bpy_materials : m.name[2] > 0

\* C23: once register() has run, every operator id a button of the
\* TileMapToMesh panel refers to is the bl_idname of a registered operator
\* class.
C23_PanelButtonsRegistered ==
  (pc # "disabled" /\ registered = AllRegistered)
    => PanelOperatorIds \subseteq OperatorIds(registered)
====
